---- MODULE Spec2Model ----
(***************************************************************************)
(* psychofauna: a two-stage pipeline.                                      *)
(*   dataset.py        asks a hosted model for examples, strips markdown   *)
(*                     fences, parses JSON, builds two rows per example    *)
(*                     and writes outrage_training_data.csv                *)
(*   train/train.py    loads the csv, splits it, fine-tunes a classifier   *)
(*                     with periodic evaluation and early stopping         *)
(*   train.py          the earlier training script (no early stopping)     *)
(* Four specifications, one per part of the program:                       *)
(*   SpecStrip  the fence-stripping text function of dataset.py            *)
(*   Spec       the generation stage (dataset.py run as a script)          *)
(*   SpecPrep   loading and splitting the dataset in the training stage    *)
(*   SpecTrain  the training loop, final evaluation and save               *)
(***************************************************************************)
EXTENDS Integers, Sequences, FiniteSets, TLC

VARIABLES
    \* fence stripping on its own (SpecStrip)
    strip_pc, raw_text, once, twice,
    \* generation stage (Spec)
    pc, response, cleaned_text, examples, idx, dataset, df, exc, log,
    csv_file, prior_file, exit_code,
    \* training stage: loading and splitting (SpecPrep)
    script, t_pc, data_file, split, tokenized, t_exc, t_log, t_exit,
    \* training stage: the training loop (SpecTrain)
    steps_per_epoch, max_steps, global_step, evals, best_metric, best_step,
    es_counter, should_stop, weights, final_f1, saved_model

varsStrip == <<strip_pc, raw_text, once, twice>>
varsGen == <<pc, response, cleaned_text, examples, idx, dataset, df, exc, log,
             csv_file, prior_file, exit_code>>
varsPrep == <<script, t_pc, data_file, split, tokenized, t_exc, t_log, t_exit>>
varsLoop == <<steps_per_epoch, max_steps, global_step, evals, best_metric,
              best_step, es_counter, should_stop, weights, final_f1, saved_model>>
vars == <<varsStrip, varsGen, varsPrep, varsLoop>>

-----------------------------------------------------------------------------
(* Bounds *)

\* longest input text of SpecStrip, counted in tokens of StripTokens
MaxTokens == 4
\* longest JSON array the hosted model answers with
MaxExamples == 2
\* most rows of the csv file the training stage reads
MaxRows == 7
\* the F1 and the loss of an evaluation, as ranks 0..MaxF1 and 0..MaxLoss
MaxF1 == 2
MaxLoss == 1
\* most optimizer steps one epoch takes (it grows with the dataset)
MaxStepsPerEpoch == 25

-----------------------------------------------------------------------------
(* Text: a sequence of characters.  The characters that matter to          *)
(* dataset.py:85-90 are the backtick, the letters of "json", the newline    *)
(* and the blank; "x" is any other character, and "B" stands for a whole    *)
(* JSON document (it begins with a bracket and ends with one, so no pattern *)
(* of dataset.py can match inside it).                                      *)

BT == "backtick"
NL == "\n"
SP == " "
Whitespace == {NL, SP}

Fence == <<BT, BT, BT>>
FenceJsonNl == <<BT, BT, BT, "j", "s", "o", "n", NL>>
NlFence == <<NL, BT, BT, BT>>

StartsWith(s, p) ==
    /\ Len(s) >= Len(p)
    /\ SubSeq(s, 1, Len(p)) = p

\* str.strip(): drop leading and trailing whitespace
RECURSIVE LStrip(_)
LStrip(s) ==
    IF s # <<>> /\ Head(s) \in Whitespace THEN LStrip(Tail(s)) ELSE s

RECURSIVE RStrip(_)
RStrip(s) ==
    IF s # <<>> /\ s[Len(s)] \in Whitespace
    THEN RStrip(SubSeq(s, 1, Len(s) - 1))
    ELSE s

Strip(s) == RStrip(LStrip(s))

\* The alternative (newline, fence, $) of both patterns, tried at the
\* positions >= from.
\* Without re.MULTILINE, $ matches at the end of the text and also just
\* before a newline that ends the text.
RemoveEndFence(s, from) ==
    LET n == Len(s)
        IsNlFence(i) ==
            /\ i >= from
            /\ i >= 1
            /\ i + 3 <= n
            /\ SubSeq(s, i, i + 3) = NlFence
    IN  IF IsNlFence(n - 3)
        THEN SubSeq(s, 1, n - 4)
        ELSE IF IsNlFence(n - 4) /\ s[n] = NL
             THEN SubSeq(s, 1, n - 5) \o <<NL>>
             ELSE s

\* re.sub of the pattern (^prefix | newline fence $) with the empty text:
\* every non-overlapping match, leftmost first, is removed.  ^ matches at
\* the start of the text only.
ReSub(prefix, s) ==
    IF StartsWith(s, prefix)
    THEN LET t == RemoveEndFence(s, Len(prefix) + 1)
         IN  SubSeq(t, Len(prefix) + 1, Len(t))
    ELSE RemoveEndFence(s, 1)

StripFencesNoFinalStrip(t) ==
    ReSub(Fence, ReSub(FenceJsonNl, Strip(t)))

\* dataset.py:85-90
StripFences(t) ==
    Strip(ReSub(Fence, ReSub(FenceJsonNl, Strip(t))))

-----------------------------------------------------------------------------
(* SpecStrip: the texts are the concatenations of at most MaxTokens tokens. *)

StripTokens ==
    {FenceJsonNl, NlFence, Fence, <<"j", "s", "o", "n">>, <<NL>>, <<SP>>,
     <<"x">>, <<BT>>}

RECURSIVE Flatten(_)
Flatten(ts) == IF ts = <<>> THEN <<>> ELSE Head(ts) \o Flatten(Tail(ts))

StripInputs ==
    {Flatten(ts) : ts \in UNION {[1..n -> StripTokens] : n \in 0..MaxTokens}}

InitStrip ==
    /\ strip_pc = "start"
    /\ raw_text \in StripInputs
    /\ once = <<>>
    /\ twice = <<>>

StripOnce ==
    /\ strip_pc = "start"
    /\ once' = StripFences(raw_text)
    /\ strip_pc' = "once"
    /\ UNCHANGED <<raw_text, twice>>

StripTwice ==
    /\ strip_pc = "once"
    /\ twice' = StripFences(once)
    /\ strip_pc' = "twice"
    /\ UNCHANGED <<raw_text, once>>

-----------------------------------------------------------------------------
(* The generation stage: dataset.py run as a script.                        *)

Fields == {"engagement_bait", "genuine_content", "topic"}

\* JSON values of a field: strings (the empty one too) and a number
Str(v) == [kind |-> "str", v |-> v]
Num == [kind |-> "num", v |-> "7"]
None == [kind |-> "none", v |-> ""]
FieldValues ==
    [engagement_bait |-> {Str(""), Str("a"), Str("b")},
     genuine_content |-> {Str("g"), Num},
     topic |-> {Str("t")}]
AllValues == UNION {FieldValues[f] : f \in Fields}

\* the objects of the parsed array: any subset of the fields may be present
ExampleObjects ==
    {e \in UNION {[D -> AllValues] : D \in SUBSET Fields} :
        \A f \in DOMAIN e : e[f] \in FieldValues[f]}

Payloads == UNION {[1..n -> ExampleObjects] : n \in 0..MaxExamples}

\* response.text: a JSON document ("B") bare, fenced, fenced without the
\* language tag, padded with whitespace or fenced twice; or text that is
\* not JSON ("x": prose, or a document cut off by max_output_tokens)
JsonTexts ==
    {<<"B">>,
     FenceJsonNl \o <<"B">> \o NlFence,
     Fence \o <<NL, "B">> \o NlFence,
     <<SP, "B", NL>>,
     Fence \o <<NL>> \o FenceJsonNl \o <<"B">> \o NlFence \o NlFence}
NonJsonTexts ==
    {<<"x">>, FenceJsonNl \o <<"x">> \o NlFence, <<>>}

Responses ==
    {[text |-> t, payload |-> p] : t \in JsonTexts, p \in Payloads}
    \cup {[text |-> t, payload |-> <<>>] : t \in NonJsonTexts}

NoResponse == [text |-> <<>>, payload |-> <<>>]

\* json.loads: the text must be one JSON document (whitespace around it is
\* allowed); anything else raises JSONDecodeError
JsonLoads(text, payload) ==
    IF Strip(text) = <<"B">>
    THEN [ok |-> TRUE, value |-> payload]
    ELSE [ok |-> FALSE, value |-> <<>>]

\* dict.get(key): no failure, None for a missing key
SubscriptGet(ex, key) ==
    IF key \in DOMAIN ex
    THEN [ok |-> TRUE, v |-> ex[key]]
    ELSE [ok |-> TRUE, v |-> None]

\* ex[key]: KeyError for a missing key
Subscript(ex, key) ==
    IF key \in DOMAIN ex
    THEN [ok |-> TRUE, v |-> ex[key]]
    ELSE [ok |-> FALSE, v |-> None]

RowsOfSwapped(bait, genuine) ==
    <<[text |-> genuine, label |-> 0], [text |-> bait, label |-> 1]>>

\* the two rows of one example, dataset.py:105-108
RowsOf(bait, genuine) ==
    <<[text |-> bait, label |-> 1], [text |-> genuine, label |-> 0]>>

NoFile == [exists |-> FALSE, rows |-> <<>>]
OldFile == [exists |-> TRUE, rows |-> <<[text |-> Str("old"), label |-> 1]>>]
NoFrame == [returned |-> FALSE, rows |-> <<>>]

Logged(level, msg) == log' = Append(log, <<level, msg>>)
Logged2(l1, m1, l2, m2) == log' = log \o << <<l1, m1>>, <<l2, m2>> >>

InitGen ==
    /\ pc = "main"
    /\ response = NoResponse
    /\ cleaned_text = <<>>
    /\ examples = <<>>
    /\ idx = 0
    /\ dataset = <<>>
    /\ df = NoFrame
    /\ exc = "none"
    /\ log = <<>>
    /\ prior_file \in {NoFile, OldFile}
    /\ csv_file = prior_file
    /\ exit_code = -1

\* dataset.py:117-120: the script starts and calls generate_outrage_examples
MainStart ==
    /\ pc = "main"
    /\ Logged2("INFO", "Starting data generation...", "INFO", "Generating examples...")
    /\ pc' = "generate"
    /\ UNCHANGED <<response, cleaned_text, examples, idx, dataset, df, exc,
                   csv_file, prior_file, exit_code>>

\* dataset.py:73-82: the call to the hosted model answers with a text
GenerateContentOk ==
    /\ pc = "generate"
    /\ \E r \in Responses : response' = r
    /\ Logged("INFO", "Raw response received from model")
    /\ pc' = "clean"
    /\ UNCHANGED <<cleaned_text, examples, idx, dataset, df, exc, csv_file,
                   prior_file, exit_code>>

\* dataset.py:73-79: the call fails (transport, API key, quota)
GenerateContentFails ==
    /\ pc = "generate"
    /\ exc' = "ApiError"
    /\ pc' = "fn_except"
    /\ UNCHANGED <<response, cleaned_text, examples, idx, dataset, df, log,
                   csv_file, prior_file, exit_code>>

\* dataset.py:85-92
CleanText ==
    /\ pc = "clean"
    /\ cleaned_text' = StripFences(response.text)
    /\ Logged("INFO", "Attempting to parse JSON response")
    /\ pc' = "parse"
    /\ UNCHANGED <<response, examples, idx, dataset, df, exc, csv_file,
                   prior_file, exit_code>>

\* a parser that answers a failure with the empty array
ParseJsonLenient ==
    /\ pc = "parse"
    /\ LET r == JsonLoads(cleaned_text, response.payload)
       IN  /\ examples' = r.value
           /\ dataset' = <<>>
           /\ idx' = 1
           /\ pc' = "build"
           /\ IF r.ok
              THEN Logged("INFO", "Successfully parsed examples")
              ELSE Logged2("ERROR", "JSON parsing failed",
                           "ERROR", "Attempted to parse text")
           /\ exc' = exc
    /\ UNCHANGED <<response, cleaned_text, df, csv_file, prior_file, exit_code>>

\* dataset.py:93-102: json.loads; JSONDecodeError is logged and raised again
ParseJson ==
    /\ pc = "parse"
    /\ LET r == JsonLoads(cleaned_text, response.payload)
       IN  IF r.ok
           THEN /\ examples' = r.value
                /\ Logged("INFO", "Successfully parsed examples")
                /\ dataset' = <<>>
                /\ idx' = 1
                /\ pc' = "build"
                /\ exc' = exc
           ELSE /\ Logged2("ERROR", "JSON parsing failed",
                           "ERROR", "Attempted to parse text")
                /\ exc' = "JSONDecodeError"
                /\ pc' = "fn_except"
                /\ UNCHANGED <<examples, dataset, idx>>
    /\ UNCHANGED <<response, cleaned_text, df, csv_file, prior_file, exit_code>>

\* dataset.py:103-108: one iteration of the loop over the examples
BuildRows ==
    /\ pc = "build"
    /\ idx <= Len(examples)
    /\ LET ex == examples[idx]
           bait == Subscript(ex, "engagement_bait")
           genuine == Subscript(ex, "genuine_content")
       IN  IF bait.ok /\ genuine.ok
           THEN /\ dataset' = dataset \o RowsOf(bait.v, genuine.v)
                /\ idx' = idx + 1
                /\ UNCHANGED <<pc, exc>>
           ELSE /\ exc' = "KeyError"
                /\ pc' = "fn_except"
                /\ UNCHANGED <<dataset, idx>>
    /\ UNCHANGED <<response, cleaned_text, examples, df, log, csv_file,
                   prior_file, exit_code>>

\* dataset.py:110-111 and 120: the loop is over, the frame is returned
ReturnDataFrame ==
    /\ pc = "build"
    /\ idx > Len(examples)
    /\ df' = [returned |-> TRUE, rows |-> dataset]
    /\ Logged2("INFO", "Created dataset", "INFO", "First few examples generated:")
    /\ pc' = "save"
    /\ UNCHANGED <<response, cleaned_text, examples, idx, dataset, exc,
                   csv_file, prior_file, exit_code>>

\* dataset.py:113-115: the function logs the exception and raises it again
FnExcept ==
    /\ pc = "fn_except"
    /\ Logged("ERROR", "Error in generate_outrage_examples")
    /\ pc' = "main_except"
    /\ UNCHANGED <<response, cleaned_text, examples, idx, dataset, df, exc,
                   csv_file, prior_file, exit_code>>

\* dataset.py:126-129: the csv is written over any earlier file; the script
\* then ends, and the interpreter exits with status 0
SaveCsv ==
    /\ pc = "save"
    /\ csv_file' = [exists |-> TRUE, rows |-> df.rows]
    /\ Logged("INFO", "Data saved to outrage_training_data.csv")
    /\ exit_code' = 0
    /\ pc' = "exited"
    /\ UNCHANGED <<response, cleaned_text, examples, idx, dataset, df, exc,
                   prior_file>>

\* dataset.py:131-132: the script logs the exception and does not raise it
\* again; it ends, and the interpreter exits with status 0
MainExcept ==
    /\ pc = "main_except"
    /\ Logged("ERROR", "Main execution failed")
    /\ exit_code' = 0
    /\ pc' = "exited"
    /\ UNCHANGED <<response, cleaned_text, examples, idx, dataset, df, exc,
                   csv_file, prior_file>>

-----------------------------------------------------------------------------
(* The training stage, first part: the csv file is read and split.          *)
(*   TrainPy      train/train.py  (prepare_dataset, sklearn split)         *)
(*   LegacyPy     train.py        (datasets.Dataset.train_test_split)      *)

TrainPy == "train/train.py"
LegacyPy == "train.py"

Columns == {"text", "label"}

\* the csv file on disk: its header and, when there is a label column, the
\* label of each row
DataFiles ==
    {[exists |-> FALSE, columns |-> {}, n |-> 0, labels |-> <<>>]}
    \cup {[exists |-> TRUE, columns |-> Columns, n |-> Len(ls), labels |-> ls] :
            ls \in UNION {[1..m -> {0, 1}] : m \in 0..MaxRows}}
    \cup {[exists |-> TRUE, columns |-> cs, n |-> k, labels |-> <<>>] :
            cs \in {{"text"}}, k \in {0, MaxRows}}
    \cup {[exists |-> TRUE, columns |-> {"label"}, n |-> MaxRows,
           labels |-> [i \in 1..MaxRows |-> i % 2]]}

RowsOfLabel(f, c) == {i \in 1..f.n : f.labels[i] = c}
Classes(f) == {f.labels[i] : i \in 1..f.n}

\* test_size=0.2: the test partition has ceil(0.2 * n) rows, the train
\* partition the rest
NTest(n) == (n + 4) \div 5
NTrain(n) == n - NTest(n)

NoSplit == [done |-> FALSE, train |-> {}, test |-> {}]

\* sklearn.model_selection.train_test_split(df, test_size=0.2,
\* stratify=df['label'], random_state=42) raises ValueError when a partition
\* would be empty, when a class has fewer than 2 rows, or when a partition
\* has fewer rows than there are classes
StratifiedSplitFails(f) ==
    \/ f.n = 0
    \/ NTrain(f.n) = 0
    \/ \E c \in Classes(f) : Cardinality(RowsOfLabel(f, c)) < 2
    \/ NTrain(f.n) < Cardinality(Classes(f))
    \/ NTest(f.n) < Cardinality(Classes(f))

\* the rows of each class that go to the train partition: the class's share
\* of n_train rounded down, the rows left over going to the classes with the
\* largest remainders (ties broken by the random generator)
TrainAllocations(f) ==
    LET cs == Classes(f)
        cnt(c) == Cardinality(RowsOfLabel(f, c))
        floored(c) == (cnt(c) * NTrain(f.n)) \div f.n
        rem(c) == (cnt(c) * NTrain(f.n)) % f.n
    IN  {a \in [cs -> 0..f.n] :
            /\ \A c \in cs : a[c] \in {floored(c), floored(c) + 1}
            /\ \A c \in cs : a[c] <= cnt(c)
            /\ \A c, d \in cs :
                   (a[c] = floored(c) + 1 /\ a[d] = floored(d)) => rem(c) >= rem(d)
            /\ LET total[S \in SUBSET cs] ==
                       IF S = {} THEN 0
                       ELSE LET c == CHOOSE c \in S : TRUE
                            IN  a[c] + total[S \ {c}]
               IN  total[cs] = NTrain(f.n)}

\* an unstratified split: any ceil(0.2 * n) rows may be the test partition
ShuffleSplits(f) ==
    {[done |-> TRUE, train |-> (1..f.n) \ T, test |-> T] :
        T \in {S \in SUBSET (1..f.n) : Cardinality(S) = NTest(f.n)}}

\* the stratified split: the train partition takes the allocated number of
\* rows of each class, the test partition is what is left
StratifiedSplits(f) ==
    {[done |-> TRUE, train |-> T, test |-> (1..f.n) \ T] :
        T \in {S \in SUBSET (1..f.n) :
                 \E a \in TrainAllocations(f) :
                     \A c \in Classes(f) :
                         Cardinality(S \cap RowsOfLabel(f, c)) = a[c]}}

TLogged(level, msg) == t_log' = Append(t_log, <<level, msg>>)

InitPrep ==
    /\ script \in {TrainPy, LegacyPy}
    /\ t_pc = "start"
    /\ data_file \in DataFiles
    /\ split = NoSplit
    /\ tokenized = FALSE
    /\ t_exc = "none"
    /\ t_log = <<>>
    /\ t_exit = -1

\* train/train.py:68-69 and train.py:31-34: pd.read_csv
ReadCsv ==
    /\ t_pc = "start"
    /\ IF data_file.exists
       THEN /\ IF script = TrainPy
               THEN TLogged("INFO", "Loaded dataset")
               ELSE UNCHANGED t_log
            /\ t_pc' = IF script = TrainPy THEN "class_dist" ELSE "split"
            /\ UNCHANGED t_exc
       ELSE /\ t_exc' = "FileNotFoundError"
            /\ t_pc' = IF script = TrainPy THEN "prepare_except" ELSE "unhandled"
            /\ UNCHANGED t_log
    /\ UNCHANGED <<script, data_file, split, tokenized, t_exit>>

\* train/train.py:72-73: df['label'].value_counts(normalize=True)
ClassDistribution ==
    /\ t_pc = "class_dist"
    /\ IF "label" \in data_file.columns
       THEN /\ TLogged("INFO", "Class distribution")
            /\ t_pc' = "split"
            /\ UNCHANGED t_exc
       ELSE /\ t_exc' = "KeyError"
            /\ t_pc' = "prepare_except"
            /\ UNCHANGED t_log
    /\ UNCHANGED <<script, data_file, split, tokenized, t_exit>>

\* train/train.py:76-81: the stratified split of sklearn
StratifiedSplit ==
    /\ t_pc = "split"
    /\ script = TrainPy
    /\ IF StratifiedSplitFails(data_file)
       THEN /\ t_exc' = "ValueError(split)"
            /\ t_pc' = "prepare_except"
            /\ UNCHANGED split
       ELSE /\ split' \in StratifiedSplits(data_file)
            /\ t_pc' = "validate"
            /\ UNCHANGED t_exc
    /\ UNCHANGED <<script, data_file, tokenized, t_log, t_exit>>

\* train.py:37: dataset.train_test_split(test_size=0.2), no stratification
\* and no seed
ShuffleSplit ==
    /\ t_pc = "split"
    /\ script = LegacyPy
    /\ IF data_file.n = 0 \/ NTrain(data_file.n) = 0
       THEN /\ t_exc' = "ValueError(split)"
            /\ t_pc' = "unhandled"
            /\ UNCHANGED split
       ELSE /\ split' \in ShuffleSplits(data_file)
            /\ t_pc' = "tokenize"
            /\ UNCHANGED t_exc
    /\ UNCHANGED <<script, data_file, tokenized, t_log, t_exit>>

\* train/train.py:83-95: the check of the required columns, then the two
\* partitions are returned
ValidateColumns ==
    /\ t_pc = "validate"
    /\ IF Columns \subseteq data_file.columns
       THEN /\ t_pc' = "tokenize"
            /\ UNCHANGED t_exc
       ELSE /\ t_exc' = "ValueError(columns)"
            /\ t_pc' = "prepare_except"
    /\ UNCHANGED <<script, data_file, split, tokenized, t_log, t_exit>>

\* train/train.py:96-98: prepare_dataset logs the exception, raises it again
PrepareExcept ==
    /\ t_pc = "prepare_except"
    /\ TLogged("ERROR", "Error loading dataset")
    /\ t_pc' = "train_except"
    /\ UNCHANGED <<script, data_file, split, tokenized, t_exc, t_exit>>

\* train/train.py:109-143 and train.py:40-50: both partitions are tokenized;
\* the tokenizer reads examples["text"] (and train/train.py
\* examples["label"])
Tokenize ==
    /\ t_pc = "tokenize"
    /\ IF "text" \in data_file.columns
          /\ (script = TrainPy => "label" \in data_file.columns)
       THEN /\ tokenized' = TRUE
            /\ t_pc' = "ready"
            /\ UNCHANGED t_exc
       ELSE /\ t_exc' = "KeyError"
            /\ t_pc' = IF script = TrainPy THEN "train_except" ELSE "unhandled"
            /\ UNCHANGED tokenized
    /\ UNCHANGED <<script, data_file, split, t_log, t_exit>>

\* train/train.py:212-217: train() logs the exception and raises it again;
\* nothing catches it and the interpreter exits with status 1
TrainExcept ==
    /\ t_pc = "train_except"
    /\ TLogged("ERROR", "Training failed with error")
    /\ t_exit' = 1
    /\ t_pc' = "exited"
    /\ UNCHANGED <<script, data_file, split, tokenized, t_exc>>

\* train.py:103-104: nothing catches the exception; the interpreter prints
\* the traceback and exits with status 1
Unhandled ==
    /\ t_pc = "unhandled"
    /\ t_exit' = 1
    /\ t_pc' = "exited"
    /\ UNCHANGED <<script, data_file, split, tokenized, t_exc, t_log>>

IdlePrep ==
    /\ script = TrainPy
    /\ t_pc = "idle"
    /\ data_file = [exists |-> FALSE, columns |-> {}, n |-> 0, labels |-> <<>>]
    /\ split = NoSplit
    /\ tokenized = FALSE
    /\ t_exc = "none"
    /\ t_log = <<>>
    /\ t_exit = -1

-----------------------------------------------------------------------------
(* The training stage, second part: transformers.Trainer as the two scripts *)
(* configure it.  The dataset enters only through the number of optimizer   *)
(* steps an epoch takes.                                                    *)

\* train/train.py:151, 154, 156, 176 and train.py:58
num_train_epochs == 10
eval_steps == 50
save_steps == 50
legacy_num_train_epochs == 3

patience_off_by_one == 3 + 1

early_stopping_patience == 3

NumTrainEpochs == IF script = TrainPy THEN num_train_epochs ELSE legacy_num_train_epochs

\* train/train.py:158: metric_for_best_model="f1", so greater is better;
\* train.py:53-65 names no metric, and the Trainer then compares the
\* evaluation loss, lower being better
Better(e, best) ==
    IF script = TrainPy THEN e.f1 > best ELSE e.loss < best
MetricOf(e) == IF script = TrainPy THEN e.f1 ELSE e.loss

\* train/train.py:153-156: evaluation and checkpoint every 50 steps;
\* train.py:60-61: at the end of every epoch
EvalDue(step) ==
    IF script = TrainPy
    THEN step % eval_steps = 0 /\ step % save_steps = 0
    ELSE step % steps_per_epoch = 0

\* the loss is read only where it chooses the best checkpoint
LossValues == IF script = TrainPy THEN {0} ELSE 0..MaxLoss

NoMetric == -1
NoStep == -1

IdleLoop ==
    /\ steps_per_epoch = 0
    /\ max_steps = 0
    /\ global_step = 0
    /\ evals = <<>>
    /\ best_metric = NoMetric
    /\ best_step = NoStep
    /\ es_counter = 0
    /\ should_stop = FALSE
    /\ weights = 0
    /\ final_f1 = NoMetric
    /\ saved_model = NoStep

InitLoop ==
    /\ script \in {TrainPy, LegacyPy}
    /\ t_pc = "ready"
    /\ data_file = [exists |-> FALSE, columns |-> {}, n |-> 0, labels |-> <<>>]
    /\ split = NoSplit
    /\ tokenized = TRUE
    /\ t_exc = "none"
    /\ t_log = <<>>
    /\ t_exit = -1
    /\ IdleLoop

\* train/train.py:146-180 and train.py:53-77: the Trainer is built and
\* train() is called
StartTraining ==
    /\ t_pc = "ready"
    /\ \E spe \in {1, MaxStepsPerEpoch} :
        /\ steps_per_epoch' = spe
        /\ max_steps' = NumTrainEpochs * spe
    /\ t_pc' = "training"
    /\ UNCHANGED <<script, data_file, split, tokenized, t_exc, t_log, t_exit,
                   global_step, evals, best_metric, best_step, es_counter,
                   should_stop, weights, final_f1, saved_model>>

\* one optimizer step of trainer.train()
TrainStep ==
    /\ t_pc = "training"
    /\ ~should_stop
    /\ global_step < max_steps
    /\ global_step' = global_step + 1
    /\ weights' = global_step + 1
    /\ t_pc' = IF EvalDue(global_step + 1) THEN "evaluate" ELSE "training"
    /\ UNCHANGED <<script, data_file, split, tokenized, t_exc, t_log, t_exit,
                   steps_per_epoch, max_steps, evals, best_metric, best_step,
                   es_counter, should_stop, final_f1, saved_model>>

\* an evaluation on the test partition (compute_metrics), followed by
\* EarlyStoppingCallback(early_stopping_patience=3) of train/train.py:176:
\* the counter is reset when the F1 beats the best one so far, incremented
\* otherwise, and training is told to stop when it reaches the patience
Evaluate ==
    /\ t_pc = "evaluate"
    /\ \E f \in 0..MaxF1, l \in LossValues :
        LET e == [step |-> global_step, f1 |-> f, loss |-> l]
            improved == best_metric = NoMetric \/ e.f1 > best_metric
            counter == IF improved THEN 0 ELSE es_counter + 1
        IN  /\ evals' = Append(evals, e)
            /\ IF script = TrainPy
               THEN /\ es_counter' = counter
                    /\ should_stop' = (should_stop \/ counter >= early_stopping_patience)
               ELSE UNCHANGED <<es_counter, should_stop>>
    /\ t_pc' = "save_checkpoint"
    /\ UNCHANGED <<script, data_file, split, tokenized, t_exc, t_log, t_exit,
                   steps_per_epoch, max_steps, global_step, best_metric,
                   best_step, weights, final_f1, saved_model>>

\* the checkpoint of this step is written; it becomes the best one when
\* there was none or when its metric is better than the best so far
SaveCheckpoint ==
    /\ t_pc = "save_checkpoint"
    /\ LET e == evals[Len(evals)]
       IN  IF best_metric = NoMetric \/ Better(e, best_metric)
           THEN /\ best_metric' = MetricOf(e)
                /\ best_step' = e.step
           ELSE UNCHANGED <<best_metric, best_step>>
    /\ t_pc' = "training"
    /\ UNCHANGED <<script, data_file, split, tokenized, t_exc, t_log, t_exit,
                   steps_per_epoch, max_steps, global_step, evals, es_counter,
                   should_stop, weights, final_f1, saved_model>>

\* trainer.train() ends: the step budget is used up or early stopping asked
\* for the stop; load_best_model_at_end=True (train/train.py:157,
\* train.py:62) loads the best checkpoint when there is one
EndTraining ==
    /\ t_pc = "training"
    /\ should_stop \/ global_step >= max_steps
    /\ weights' = IF best_step # NoStep THEN best_step ELSE weights
    /\ t_pc' = "final_eval"
    /\ UNCHANGED <<script, data_file, split, tokenized, t_exc, t_log, t_exit,
                   steps_per_epoch, max_steps, global_step, evals, best_metric,
                   best_step, es_counter, should_stop, final_f1, saved_model>>

\* an exception inside trainer.train() (memory, device, a bad batch)
TrainingFails ==
    /\ t_pc = "training"
    /\ ~should_stop
    /\ global_step < max_steps
    /\ t_exc' = "RuntimeError"
    /\ t_pc' = IF script = TrainPy THEN "train_except" ELSE "unhandled"
    /\ UNCHANGED <<script, data_file, split, tokenized, t_log, t_exit, varsLoop>>

\* train/train.py:183-184 and train.py:80-81: trainer.evaluate() on the
\* model now loaded; weights that were evaluated before score the same
FinalEvaluate ==
    /\ t_pc = "final_eval"
    /\ \E f \in 0..MaxF1 :
        /\ \A k \in 1..Len(evals) : evals[k].step = weights => f = evals[k].f1
        /\ final_f1' = f
        /\ IF script = TrainPy
           THEN es_counter' =
                    IF best_metric = NoMetric \/ f > best_metric
                    THEN 0 ELSE es_counter + 1
           ELSE UNCHANGED es_counter
    /\ TLogged("INFO", "Final evaluation metrics")
    /\ t_pc' = "save_model"
    /\ UNCHANGED <<script, data_file, split, tokenized, t_exc, t_exit,
                   steps_per_epoch, max_steps, global_step, evals, best_metric,
                   best_step, should_stop, weights, saved_model>>

\* train/train.py:187-190 and train.py:84-86: the model now loaded is saved
\* to ./engagement_classifier
SaveModel ==
    /\ t_pc = "save_model"
    /\ saved_model' = weights
    /\ TLogged("INFO", "Model saved to ./engagement_classifier")
    /\ t_pc' = "smoke_test"
    /\ UNCHANGED <<script, data_file, split, tokenized, t_exc, t_exit,
                   steps_per_epoch, max_steps, global_step, evals, best_metric,
                   best_step, es_counter, should_stop, weights, final_f1>>

\* train/train.py:192-210 and train.py:88-101: the fixed example texts are
\* classified and logged; the script ends with status 0
SmokeTest ==
    /\ t_pc = "smoke_test"
    /\ TLogged("INFO", "Test predictions:")
    /\ t_exit' = 0
    /\ t_pc' = "exited"
    /\ UNCHANGED <<script, data_file, split, tokenized, t_exc, varsLoop>>

-----------------------------------------------------------------------------
(* A stage that is not running *)

IdleStrip ==
    /\ strip_pc = "idle"
    /\ raw_text = <<>>
    /\ once = <<>>
    /\ twice = <<>>

IdleGen ==
    /\ pc = "idle"
    /\ response = NoResponse
    /\ cleaned_text = <<>>
    /\ examples = <<>>
    /\ idx = 0
    /\ dataset = <<>>
    /\ df = NoFrame
    /\ exc = "none"
    /\ log = <<>>
    /\ prior_file = NoFile
    /\ csv_file = NoFile
    /\ exit_code = -1

-----------------------------------------------------------------------------
(* Specifications *)

NextStrip ==
    \/ StripOnce /\ UNCHANGED <<varsGen, varsPrep, varsLoop>>
    \/ StripTwice /\ UNCHANGED <<varsGen, varsPrep, varsLoop>>

StripInit == InitStrip /\ IdleGen /\ IdlePrep /\ IdleLoop

SpecStrip == StripInit /\ [][NextStrip]_vars

NextPrep ==
    \/ ReadCsv /\ UNCHANGED <<varsStrip, varsGen, varsLoop>>
    \/ ClassDistribution /\ UNCHANGED <<varsStrip, varsGen, varsLoop>>
    \/ StratifiedSplit /\ UNCHANGED <<varsStrip, varsGen, varsLoop>>
    \/ ShuffleSplit /\ UNCHANGED <<varsStrip, varsGen, varsLoop>>
    \/ ValidateColumns /\ UNCHANGED <<varsStrip, varsGen, varsLoop>>
    \/ PrepareExcept /\ UNCHANGED <<varsStrip, varsGen, varsLoop>>
    \/ Tokenize /\ UNCHANGED <<varsStrip, varsGen, varsLoop>>
    \/ TrainExcept /\ UNCHANGED <<varsStrip, varsGen, varsLoop>>
    \/ Unhandled /\ UNCHANGED <<varsStrip, varsGen, varsLoop>>

PrepInit == InitPrep /\ IdleStrip /\ IdleGen /\ IdleLoop

SpecPrep == PrepInit /\ [][NextPrep]_vars

NextTrain ==
    \/ StartTraining /\ UNCHANGED <<varsStrip, varsGen>>
    \/ TrainStep /\ UNCHANGED <<varsStrip, varsGen>>
    \/ Evaluate /\ UNCHANGED <<varsStrip, varsGen>>
    \/ SaveCheckpoint /\ UNCHANGED <<varsStrip, varsGen>>
    \/ EndTraining /\ UNCHANGED <<varsStrip, varsGen>>
    \/ TrainingFails /\ UNCHANGED <<varsStrip, varsGen>>
    \/ FinalEvaluate /\ UNCHANGED <<varsStrip, varsGen>>
    \/ SaveModel /\ UNCHANGED <<varsStrip, varsGen>>
    \/ SmokeTest /\ UNCHANGED <<varsStrip, varsGen>>
    \/ TrainExcept /\ UNCHANGED <<varsStrip, varsGen, varsLoop>>
    \/ Unhandled /\ UNCHANGED <<varsStrip, varsGen, varsLoop>>

TrainInit == InitLoop /\ IdleStrip /\ IdleGen

SpecTrain == TrainInit /\ [][NextTrain]_vars

Init == InitGen /\ IdleStrip /\ IdlePrep /\ IdleLoop

Next ==
    \/ MainStart /\ UNCHANGED <<varsStrip, varsPrep, varsLoop>>
    \/ GenerateContentOk /\ UNCHANGED <<varsStrip, varsPrep, varsLoop>>
    \/ GenerateContentFails /\ UNCHANGED <<varsStrip, varsPrep, varsLoop>>
    \/ CleanText /\ UNCHANGED <<varsStrip, varsPrep, varsLoop>>
    \/ ParseJson /\ UNCHANGED <<varsStrip, varsPrep, varsLoop>>
    \/ BuildRows /\ UNCHANGED <<varsStrip, varsPrep, varsLoop>>
    \/ ReturnDataFrame /\ UNCHANGED <<varsStrip, varsPrep, varsLoop>>
    \/ FnExcept /\ UNCHANGED <<varsStrip, varsPrep, varsLoop>>
    \/ SaveCsv /\ UNCHANGED <<varsStrip, varsPrep, varsLoop>>
    \/ MainExcept /\ UNCHANGED <<varsStrip, varsPrep, varsLoop>>

Spec == Init /\ [][Next]_vars

-----------------------------------------------------------------------------
(* Fence stripping (SpecStrip) *)

RECURSIVE HasFence(_)
HasFence(s) ==
    /\ Len(s) >= 3
    /\ \/ SubSeq(s, 1, 3) = Fence
       \/ HasFence(Tail(s))

\* a body with no backtick, behind at most one opening marker and before at
\* most one closing marker, with any whitespace around the whole
SinglyFenced(t) ==
    LET c == Strip(t)
        a == IF StartsWith(c, FenceJsonNl) THEN SubSeq(c, 9, Len(c))
             ELSE IF StartsWith(c, Fence) THEN SubSeq(c, 4, Len(c))
             ELSE c
        b == IF Len(a) >= 4 /\ SubSeq(a, Len(a) - 3, Len(a)) = NlFence
             THEN SubSeq(a, 1, Len(a) - 4)
             ELSE a
    IN  \A i \in 1..Len(b) : b[i] # BT

-----------------------------------------------------------------------------
(* The generation stage (Spec) *)

LogHas(msg) == \E i \in 1..Len(log) : log[i][2] = msg

\* json.loads succeeded / failed in this run
Parsed == LogHas("Successfully parsed examples")
JsonFailed == LogHas("JSON parsing failed")

WellFormed(exs) == \A i \in 1..Len(exs) : Fields \subseteq DOMAIN exs[i]

HasContent(exs) ==
    \A i \in 1..Len(exs) :
        {"engagement_bait", "genuine_content"} \subseteq DOMAIN exs[i]

\* C1: for a parsed response whose examples all carry the required fields the
\* function returns, and the frame it returns has 2 * Len(examples) rows: row
\* 2i-1 is example i's bait text with label 1, row 2i the same example's
\* genuine text with label 0 (indices from 1).
C1_TwoRowsPerExampleInOrder ==
    (Parsed /\ WellFormed(examples)) =>
        /\ pc \in {"save", "exited"} => df.returned
        /\ df.returned =>
            /\ Len(df.rows) = 2 * Len(examples)
            /\ \A i \in 1..Len(examples) :
                /\ df.rows[2 * i - 1] =
                       [text |-> examples[i]["engagement_bait"], label |-> 1]
                /\ df.rows[2 * i] =
                       [text |-> examples[i]["genuine_content"], label |-> 0]

\* two different well-formed examples have been turned into four rows
C1_Witness ==
    /\ pc = "exited"
    /\ df.returned
    /\ Len(examples) = 2
    /\ WellFormed(examples)
    /\ examples[1]["engagement_bait"] # examples[2]["engagement_bait"]
    /\ Len(df.rows) = 4

\* C3: when the cleaned text does not parse as JSON the csv file is left as it
\* was before the run; the file changes only once every example has been
\* turned into rows, and then it holds all of them.
C3_NoFileOnParseFailure ==
    /\ JsonFailed => csv_file = prior_file
    /\ csv_file # prior_file =>
        /\ Parsed
        /\ df.returned
        /\ idx = Len(examples) + 1
        /\ Len(df.rows) = 2 * Len(examples)
        /\ csv_file = [exists |-> TRUE, rows |-> df.rows]

\* the run is over after a parse failure, and the earlier file is still there
C3_Witness ==
    /\ pc = "exited"
    /\ JsonFailed
    /\ exc = "JSONDecodeError"
    /\ prior_file = OldFile
    /\ csv_file = OldFile

\* C8 as stated: a dataset is returned only when every example has the two
\* content fields and the topic field; an example that lacks any of the three
\* makes the function fail with a lookup failure.
C8_Original ==
    /\ df.returned => WellFormed(examples)
    /\ (pc \in {"main_except", "exited"} /\ Parsed /\ ~WellFormed(examples)) =>
           (exc = "KeyError" /\ ~df.returned)

\* C8 amended: the same for the two content fields only; the topic field is
\* never looked up.  A parsed response whose examples all carry the two
\* content fields yields a dataset; one with an example that lacks a content
\* field yields a KeyError that reaches the caller, and no dataset.
C8_MissingContentFieldFails ==
    /\ df.returned => HasContent(examples)
    /\ (pc \in {"main_except", "exited"} /\ Parsed /\ ~HasContent(examples)) =>
           (exc = "KeyError" /\ ~df.returned)
    /\ (pc \in {"save", "exited"} /\ Parsed /\ HasContent(examples)) =>
           (exc = "none" /\ df.returned)

\* the second example lacks a content field: the rows of the first are
\* dropped and the KeyError has reached the caller
C8_Witness ==
    /\ pc = "main_except"
    /\ exc = "KeyError"
    /\ Len(examples) = 2
    /\ Len(dataset) = 2
    /\ ~df.returned

NonEmptyText(v) == v.kind # "none" /\ v.v # ""

RowOk(r) == NonEmptyText(r.text) /\ r.label \in {0, 1}

\* C10: every row built so far, and every row of the csv file the run has
\* written, has a non-empty text and a label in {0, 1}.
C10_EveryRowNonEmptyLabelled ==
    /\ \A i \in 1..Len(dataset) : RowOk(dataset[i])
    /\ csv_file # prior_file =>
           \A i \in 1..Len(csv_file.rows) : RowOk(csv_file.rows[i])

\* C2: an error detected in a stage is logged and ends the process with a
\* status other than 0, in the generation stage and in the training stage
\* (train.py has no logging of its own: the interpreter reports its errors).
C2_ErrorsAbortNonZero ==
    /\ (pc = "exited" /\ exc # "none") =>
           (LogHas("Error in generate_outrage_examples") /\ exit_code # 0)
    /\ (t_pc = "exited" /\ t_exc # "none") =>
           /\ t_exit # 0
           /\ script = TrainPy =>
                  \E i \in 1..Len(t_log) : t_log[i][1] = "ERROR"

-----------------------------------------------------------------------------
(* The training stage, loading and splitting (SpecPrep) *)

TLogHas(msg) == \E i \in 1..Len(t_log) : t_log[i][2] = msg

\* C4: prepare_dataset on a file without the label column, or without the
\* text column, fails with the ValueError that names the required columns,
\* and it does so before the class distribution is computed, before the split
\* and before any tokenization.
C4_MissingColumnValidationFirst ==
    (script = TrainPy /\ data_file.exists /\ ~(Columns \subseteq data_file.columns)) =>
        /\ ~tokenized
        /\ t_pc \notin {"tokenize", "ready"}
        /\ ~TLogHas("Class distribution")
        /\ ~split.done
        /\ t_pc \in {"prepare_except", "train_except", "exited"} =>
               t_exc = "ValueError(columns)"

Ones(f, part) == Cardinality({i \in part : f.labels[i] = 1})

\* the label-1 rows of a partition are within one row of the share the
\* whole file's proportion gives it
WithinOneRow(f, part) ==
    LET d == Ones(f, part) * f.n - Ones(f, 1..f.n) * Cardinality(part)
    IN  d <= f.n /\ -d <= f.n

Partitioned(f, sp) ==
    /\ sp.train \cap sp.test = {}
    /\ sp.train \cup sp.test = 1..f.n

HasBothLabels(f) ==
    /\ f.exists
    /\ Columns \subseteq f.columns
    /\ Classes(f) = {0, 1}

\* C9: for a file with at least one row of each label the split succeeds, the
\* two partitions are disjoint and cover the file, and each holds the label-1
\* rows in the file's proportion, within one row.
C9_SplitSucceedsStratified ==
    HasBothLabels(data_file) =>
        /\ t_exc # "ValueError(split)"
        /\ t_pc \in {"validate", "tokenize", "ready"} => split.done
        /\ split.done =>
            /\ Partitioned(data_file, split)
            /\ WithinOneRow(data_file, split.train)
            /\ WithinOneRow(data_file, split.test)

\* What train/train.py does guarantee: whenever its split succeeds the
\* partitions are disjoint, cover the file and are stratified within one row.
Prep_StratifiedWhenSplitSucceeds ==
    (script = TrainPy /\ split.done) =>
        /\ Partitioned(data_file, split)
        /\ Cardinality(split.test) = NTest(data_file.n)
        /\ WithinOneRow(data_file, split.train)
        /\ WithinOneRow(data_file, split.test)

-----------------------------------------------------------------------------
(* The training loop (SpecTrain) *)

SetMax(S) == CHOOSE m \in S : \A x \in S : x <= m

BestF1(evs) == SetMax({evs[k].f1 : k \in 1..Len(evs)})

\* evaluation k improved the F1: it is the first one, or beats all before it
ImprovedAt(evs, k) ==
    k = 1 \/ evs[k].f1 > SetMax({evs[j].f1 : j \in 1..(k - 1)})

\* the evaluations since the last one that improved the F1
NonImprovingSinceBest(evs) ==
    IF evs = <<>> THEN 0
    ELSE Len(evs) - SetMax({k \in 1..Len(evs) : ImprovedAt(evs, k)})

EndedNormally ==
    /\ t_exc = "none"
    /\ t_pc \in {"final_eval", "save_model", "smoke_test", "exited"}

\* C5: in train/train.py there are never more than 3 evaluations since the
\* last one that improved the F1; once there are 3, no further training step
\* and no further evaluation of the loop takes place; and training that has
\* ended was stopped that way or has used up its 10 epochs.
C5_EarlyStoppingWithinPatience ==
    /\ [](script = TrainPy => NonImprovingSinceBest(evals) <= 3)
    /\ [][(script = TrainPy /\ NonImprovingSinceBest(evals) >= 3) =>
              (global_step' = global_step /\ evals' = evals)]_vars
    /\ []((script = TrainPy /\ EndedNormally) =>
              \/ NonImprovingSinceBest(evals) = 3
              \/ global_step = 10 * steps_per_epoch)

\* early stopping has ended a run before its budget was used up
C5_Witness ==
    /\ script = TrainPy
    /\ t_pc = "final_eval"
    /\ NonImprovingSinceBest(evals) = 3
    /\ Len(evals) = 4
    /\ global_step = 200
    /\ global_step < max_steps

IsBestF1Checkpoint(step) ==
    \E k \in 1..Len(evals) : evals[k].step = step /\ evals[k].f1 = BestF1(evals)

\* C6: when a run has evaluated at all, the model loaded for the final
\* evaluation and saved to ./engagement_classifier is a checkpoint whose F1 is
\* the highest of all evaluations of the run.
C6_BestF1CheckpointPersisted ==
    /\ (t_pc \in {"final_eval", "save_model"} /\ evals # <<>>) =>
           IsBestF1Checkpoint(weights)
    /\ (saved_model # NoStep /\ evals # <<>>) => IsBestF1Checkpoint(saved_model)

\* What train/train.py does guarantee: C6 for the runs of that script.
Train_BestF1PersistedByTrainPy ==
    script = TrainPy => C6_BestF1CheckpointPersisted

====
